---- MODULE Spec2Model ----
(***************************************************************************)
(* A model of video_generator.py: the run of main() from loaded settings   *)
(* to the timeline handed to write_videofile, with the clip builders       *)
(* (create_timer_clip, create_qa_video, create_bookend_clip,               *)
(* process_media_clip) and the position resolvers as operators.            *)
(* Durations are whole seconds.                                            *)
(***************************************************************************)
EXTENDS Integers, Sequences, FiniteSets, TLC

VARIABLES
    pc,           \* position of main(): the block that runs next
    settings,     \* project settings returned by load_settings
    docs,         \* the companion documents project_intro.json / project_end.json
    fs,           \* media files that exist on disk
    questions_data, \* questions_data['questions'] as loaded
    questions,    \* main's local `questions`
    intro_clip,   \* main's local `intro_clip`
    end_clip,     \* main's local `end_clip`
    clips,        \* main's local `clips`
    qi,           \* index of the next question of the clip loop (1-based)
    final_video,  \* main's local `final_video`
    rendered,     \* what write_videofile received
    error,        \* the exception that left main, "none" while there is none
    geo           \* inputs and results of the position / resize functions

vars == <<pc, settings, docs, fs, questions, intro_clip, end_clip, clips, qi,
          final_video, rendered, error, questions_data, geo>>

mainVars == <<pc, settings, docs, fs, questions, intro_clip, end_clip, clips, qi,
              final_video, rendered, error, questions_data>>

(***************************************************************************)
(* Bounds of the model.                                                    *)
(***************************************************************************)
MaxQuestionDuration == 3
MaxAnswerDuration == 2
MaxQuestions == 3
MaxQuestionsLimit == 2
MaxDurationLimit == 9
MaxBookendDuration == 1
MaxSourceDuration == 4
MaxImages == 1

(***************************************************************************)
(* Program constants.                                                      *)
(***************************************************************************)
DefaultBookendDuration == 5
TimerLayerDuration == 1

(***************************************************************************)
(* Python's str(int) and int(str) on decimal strings, as sequences of      *)
(* one-character strings.                                                  *)
(***************************************************************************)
DigitChars == <<"0", "1", "2", "3", "4", "5", "6", "7", "8", "9">>

DigitValue(c) == (CHOOSE k \in 1..10 : DigitChars[k] = c) - 1

IsDigitChar(c) == \E k \in 1..10 : DigitChars[k] = c

RECURSIVE NatStr(_)
NatStr(n) ==
    IF n < 10 THEN <<DigitChars[n + 1]>>
    ELSE NatStr(n \div 10) \o <<DigitChars[(n % 10) + 1]>>

\* str(n) for an integer n
IntStr(n) == IF n < 0 THEN <<"-">> \o NatStr(0 - n) ELSE NatStr(n)

RECURSIVE DigitsValue(_)
DigitsValue(s) ==
    IF s = <<>> THEN 0
    ELSE 10 * DigitsValue(SubSeq(s, 1, Len(s) - 1)) + DigitValue(s[Len(s)])

\* str.isdigit(): non-empty and every character a digit
IsDigit(s) == Len(s) > 0 /\ \A k \in 1..Len(s) : IsDigitChar(s[k])

(***************************************************************************)
(* Clips and layers.                                                       *)
(***************************************************************************)
None == [kind |-> "none", duration |-> 0, layers |-> <<>>, ref |-> 0]

Layer(kind, content, start, duration, sound, fade) ==
    [kind |-> kind, content |-> content, start |-> start, duration |-> duration,
     sound |-> sound, fade |-> fade]

set_start(layer, t) == [layer EXCEPT !.start = t]

\* The tick sound is attached only when enabled, configured and on disk.
TimerSound ==
    settings.timer_sound_enabled /\ "root/tick" \in fs

\* A countdown that is one too low: q-1, ..., 0.
timer_text_from_zero(duration, start_time) == IntStr(duration - start_time - 1)

\* timer_text = str(int(duration - start_time))
timer_text(duration, start_time) == IntStr(duration - start_time)

create_timer_clip(duration, start_time) ==
    Layer("timer", timer_text(duration, start_time), 0, TimerLayerDuration,
          TimerSound, start_time = 0)

\* A timer loop that also runs through the answer phase.
RECURSIVE timer_clips_through_answer(_, _)
timer_clips_through_answer(q_duration, i) ==
    IF i >= q_duration + settings.answer_duration THEN <<>>
    ELSE <<set_start(create_timer_clip(q_duration, i), i)>>
         \o timer_clips_through_answer(q_duration, i + 1)

\* for i in range(q_duration): timer_clips.append(create_timer_clip(...).set_start(i))
RECURSIVE timer_clips(_, _)
timer_clips(q_duration, i) ==
    IF i >= q_duration THEN <<>>
    ELSE <<set_start(create_timer_clip(q_duration, i), i)>>
         \o timer_clips(q_duration, i + 1)

\* A background that takes the configured image without looking for the file.
qa_background_unchecked(total_duration) ==
    IF settings.background_image
    THEN Layer("background", <<"image">>, 0, total_duration, FALSE, FALSE)
    ELSE Layer("background", <<"color">>, 0, total_duration, FALSE, FALSE)

\* background = ImageClip(...) if configured and os.path.exists(...) else ColorClip(...)
qa_background(total_duration) ==
    IF settings.background_image /\ "root/bg" \in fs
    THEN Layer("background", <<"image">>, 0, total_duration, FALSE, FALSE)
    ELSE Layer("background", <<"color">>, 0, total_duration, FALSE, FALSE)

\* create_text_clip: raises when the backend cannot lay the text out
create_text_clip(kind, duration) ==
    Layer(kind, <<"text">>, 0, duration, FALSE, TRUE)

qa_total_duration(q_duration, a_duration) == q_duration + a_duration

\* The result of create_qa_video: the clip, or the exception it re-raises.
create_qa_video(id) ==
    LET q_duration == settings.question_duration
        a_duration == settings.answer_duration
        total_duration == qa_total_duration(q_duration, a_duration)
        question_clip == create_text_clip("question", q_duration)
        answer_clip == set_start(create_text_clip("answer", a_duration), q_duration)
    IN  IF ~settings.font_ok
        THEN [raised |-> TRUE, clip |-> None]
        ELSE [raised |-> FALSE,
              clip |-> [kind |-> "qa",
                        duration |-> total_duration,
                        layers |-> <<qa_background(total_duration),
                                     question_clip, answer_clip>>
                                   \o timer_clips(q_duration, 0),
                        ref |-> id]]

(***************************************************************************)
(* Bookend clips.                                                          *)
(***************************************************************************)
\* Image path of a bookend image layer: the project directory first, then
\* the application root; "" when neither exists.
bookend_image_path ==
    IF "proj/img" \in fs THEN "proj"
    ELSE IF "root/img" \in fs THEN "root" ELSE ""

\* The timing / fade pass of process_media_clip with no explicit "timing".
process_media_timing(layer, default_duration) ==
    [layer EXCEPT !.start = 0, !.duration = default_duration, !.fade = TRUE]

bookend_background(doc, duration) ==
    IF doc.bg_image /\ "root/bookend_bg" \in fs
    THEN Layer("background", <<"image">>, 0, duration, FALSE, FALSE)
    ELSE Layer("background", <<"color">>, 0, duration, FALSE, FALSE)

\* The image loop: a layer per image whose file is found, none for the others.
RECURSIVE bookend_images(_, _)
bookend_images(n, duration) ==
    IF n <= 0 THEN <<>>
    ELSE (IF bookend_image_path = "" THEN <<>>
          ELSE <<process_media_timing(
                    Layer("image", <<bookend_image_path>>, 0, 0, FALSE, FALSE),
                    duration)>>)
         \o bookend_images(n - 1, duration)

RECURSIVE bookend_texts(_, _)
bookend_texts(n, duration) ==
    IF n <= 0 THEN <<>>
    ELSE <<process_media_timing(create_text_clip("text", duration), duration)>>
         \o bookend_texts(n - 1, duration)

\* A document without an enabled key taken as enabled.
bookend_enabled_by_default(doc) == doc.enabled # "false"

\* clip_settings.get('enabled', False)
bookend_enabled(doc) == doc.enabled = "true"

\* create_bookend_clip: the clip, or None (also for every exception inside).
create_bookend_clip(clip_type) ==
    LET doc == docs[clip_type]
        duration == IF doc.has_duration THEN doc.duration ELSE DefaultBookendDuration
    IN  IF ~doc.exists THEN None
        ELSE IF ~bookend_enabled(doc) THEN None
        ELSE IF ~doc.has_texts THEN None                       \* KeyError 'texts'
        ELSE IF doc.n_texts > 0 /\ ~doc.font_ok THEN None      \* TextClip raises
        ELSE [kind |-> clip_type,
              duration |-> duration,
              layers |-> <<bookend_background(doc, duration)>>
                         \o (IF doc.has_images
                             THEN bookend_images(doc.n_images, duration)
                             ELSE <<>>)
                         \o bookend_texts(doc.n_texts, duration),
              ref |-> 0]

(***************************************************************************)
(* Preview truncation.                                                     *)
(***************************************************************************)
Min(a, b) == IF a <= b THEN a ELSE b
Max(a, b) == IF a >= b THEN a ELSE b

\* questions[:limit]
slice_to(qs, limit) ==
    IF limit >= 0 THEN SubSeq(qs, 1, Min(limit, Len(qs)))
    ELSE SubSeq(qs, 1, Max(0, Len(qs) + limit))

\* for q in questions: accept while total_time + clip_duration <= available_time
RECURSIVE preview_questions(_, _, _, _)
preview_questions(qs, total_time, available_time, clip_duration) ==
    IF qs = <<>> THEN <<>>
    ELSE IF total_time + clip_duration <= available_time
         THEN <<Head(qs)>> \o preview_questions(Tail(qs), total_time + clip_duration,
                                                available_time, clip_duration)
         ELSE <<>>

\* A running total that counts only half of the intro clip.
intro_duration_halved == IF intro_clip # None THEN intro_clip.duration \div 2 ELSE 0

\* total_time = 0; if intro_clip: total_time += intro_clip.duration
intro_duration == IF intro_clip # None THEN intro_clip.duration ELSE 0

end_clip_duration == IF end_clip # None THEN end_clip.duration ELSE 0

\* A budget that forgets to reserve the end clip.
available_time_unreserved == settings.duration_limit

\* available_time = duration_limit - end_clip_duration
available_time == settings.duration_limit - end_clip_duration

preview(qs) ==
    IF ~settings.preview_enabled THEN qs
    ELSE IF settings.preview_type = "questions"
         THEN slice_to(qs, settings.questions_limit)
    ELSE IF settings.preview_type = "duration"
         THEN preview_questions(qs, intro_duration, available_time,
                                settings.question_duration + settings.answer_duration)
    ELSE qs

(***************************************************************************)
(* The timeline and its audio track.                                       *)
(***************************************************************************)
RECURSIVE sum_durations(_)
sum_durations(cs) ==
    IF cs = <<>> THEN 0 ELSE Head(cs).duration + sum_durations(Tail(cs))

NoAudio == [present |-> FALSE, duration |-> 0, copies |-> 0]

NoVideo == [duration |-> 0, clips |-> <<>>, audio |-> NoAudio]

concatenate_videoclips(cs) ==
    [duration |-> sum_durations(cs), clips |-> cs, audio |-> NoAudio]

\* A repeat count rounded down instead of up.
num_loops_floor(total_duration, source_duration) ==
    total_duration \div source_duration

\* int(np.ceil(total_duration / audio.duration)), audio.duration > 0
num_loops(total_duration, source_duration) ==
    (total_duration + source_duration - 1) \div source_duration

\* concatenate_audioclips([audio] * n).duration
concatenate_audioclips(source_duration, n) == n * source_duration

\* clip.subclip(t_start, t_end).duration
subclip(duration, t_start, t_end) == t_end - t_start

\* The track the audio block attaches; NoAudio when the block's except ran.
audio_track(total_duration) ==
    LET s == settings.audio_source_duration
        n == num_loops(total_duration, s)
    IN  IF ~("root/audio" \in fs) THEN NoAudio            \* AudioFileClip raises
        ELSE IF settings.audio_loop
             THEN IF n <= 0
                  THEN NoAudio                            \* empty concatenation raises
                  ELSE [present |-> TRUE,
                        duration |-> subclip(concatenate_audioclips(s, n), 0,
                                             total_duration),
                        copies |-> n]
             ELSE [present |-> TRUE, duration |-> s, copies |-> 1]

(***************************************************************************)
(* Position settings and their resolution.  A setting or a coordinate is   *)
(* an int, a float (held as twice its value, so halves are exact), a       *)
(* string, or missing; Raise stands for the exception a resolver raises.   *)
(***************************************************************************)
IntV(n) == [t |-> "int", v |-> n, s |-> <<>>]
FloatV(twice) == [t |-> "float", v |-> twice, s |-> <<>>]
StrV(chars) == [t |-> "str", v |-> 0, s |-> chars]
Missing == [t |-> "missing", v |-> 0, s |-> <<>>]
Raise == [t |-> "raise", v |-> 0, s |-> <<>>]

Center == StrV(<<"c", "e", "n", "t", "e", "r">>)
Left == StrV(<<"l", "e", "f", "t">>)
Right == StrV(<<"r", "i", "g", "h", "t">>)
Top == StrV(<<"t", "o", "p">>)
Bottom == StrV(<<"b", "o", "t", "t", "o", "m">>)
Circle == StrV(<<"c", "i", "r", "c", "l", "e">>)
Square == StrV(<<"s", "q", "u", "a", "r", "e">>)

\* dict.get(key, default)
get(value, default) == IF value = Missing THEN default ELSE value

\* isinstance(x, (int, float))
is_number(x) == x.t \in {"int", "float"}

\* str(x).isdigit(): for a number only a non-negative int prints as digits
str_isdigit(x) ==
    IF x.t = "str" THEN IsDigit(x.s)
    ELSE IF x.t = "int" THEN x.v >= 0
    ELSE FALSE

\* int(x) of a float: truncation toward zero
trunc_half(twice) == IF twice >= 0 THEN twice \div 2 ELSE 0 - ((0 - twice) \div 2)

\* int(x): a number truncated, a string parsed ([+-]digits) or ValueError
python_int(x) ==
    IF x.t = "int" THEN x
    ELSE IF x.t = "float" THEN IntV(trunc_half(x.v))
    ELSE IF x.t = "str" /\ IsDigit(x.s) THEN IntV(DigitsValue(x.s))
    ELSE IF x.t = "str" /\ Len(x.s) > 1 /\ x.s[1] = "-" /\ IsDigit(Tail(x.s))
         THEN IntV(0 - DigitsValue(Tail(x.s)))
    ELSE IF x.t = "str" /\ Len(x.s) > 1 /\ x.s[1] = "+" /\ IsDigit(Tail(x.s))
         THEN IntV(DigitsValue(Tail(x.s)))
    ELSE Raise

DefaultPadding == 20

\* A 'right' that forgets the width of the content.
text_x_pos_no_content(x, pad, clip_width, video_width) ==
    LET x_setting == get(x, Center)
        padding == get(pad, IntV(DefaultPadding))
    IN  IF is_number(x_setting) \/ str_isdigit(x_setting) THEN python_int(x_setting)
        ELSE IF x_setting = Center THEN Center
        ELSE IF x_setting = Left THEN padding
        ELSE IF x_setting = Right THEN IntV(video_width - padding.v)
        ELSE Center

\* get_text_position: the x axis
text_x_pos(x, pad, clip_width, video_width) ==
    LET x_setting == get(x, Center)
        padding == get(pad, IntV(DefaultPadding))
    IN  IF is_number(x_setting) \/ str_isdigit(x_setting) THEN python_int(x_setting)
        ELSE IF x_setting = Center THEN Center
        ELSE IF x_setting = Left THEN padding
        ELSE IF x_setting = Right THEN IntV(video_width - clip_width - padding.v)
        ELSE Center

\* get_text_position: the y axis
text_y_pos(y, pad, clip_height, video_height) ==
    LET y_setting == get(y, Center)
        padding == get(pad, IntV(DefaultPadding))
    IN  IF is_number(y_setting) \/ str_isdigit(y_setting) THEN python_int(y_setting)
        ELSE IF y_setting = Center THEN Center
        ELSE IF y_setting = Top THEN padding
        ELSE IF y_setting = Bottom THEN IntV(video_height - clip_height - padding.v)
        ELSE Center

get_text_position(x, y, pad, clip_width, clip_height, video_width, video_height) ==
    <<text_x_pos(x, pad, clip_width, video_width),
      text_y_pos(y, pad, clip_height, video_height)>>

\* process_media_clip: the x axis of `if 'position' in config`
media_x_pos(x, pad, clip_width, width) ==
    LET x_setting == get(x, Center)
        padding == get(pad, IntV(DefaultPadding))
    IN  IF x_setting = Center THEN Center
        ELSE IF x_setting = Left THEN padding
        ELSE IF x_setting = Right THEN IntV(width - clip_width - padding.v)
        ELSE python_int(x_setting)

\* process_media_clip: the y axis
media_y_pos(y, pad, clip_height, height) ==
    LET y_setting == get(y, Center)
        padding == get(pad, IntV(DefaultPadding))
    IN  IF y_setting = Center THEN Center
        ELSE IF y_setting = Top THEN padding
        ELSE IF y_setting = Bottom THEN IntV(height - clip_height - padding.v)
        ELSE python_int(y_setting)

\* The position set by process_media_clip; a raise on either axis raises.
media_position(x, y, pad, clip_width, clip_height, width, height) ==
    LET x_pos == media_x_pos(x, pad, clip_width, width)
        y_pos == media_y_pos(y, pad, clip_height, height)
    IN  IF x_pos = Raise \/ y_pos = Raise THEN <<Raise, Raise>> ELSE <<x_pos, y_pos>>

\* create_timer_clip: the x axis of `pos`
timer_x_pos(x, pad, size, video_width) ==
    LET x_setting == get(x, Center)
        padding == get(pad, IntV(DefaultPadding))
    IN  IF x_setting = Center THEN Center
        ELSE IF is_number(x_setting) THEN x_setting
        ELSE IF x_setting = Left THEN padding
        ELSE IF x_setting = Right THEN IntV(video_width - size - padding.v)
        ELSE Center

\* create_timer_clip: position['y'], taken as it is; KeyError when missing
timer_y_pos(y) == IF y = Missing THEN Raise ELSE y

timer_position(x, y, pad, size, video_width) ==
    IF timer_y_pos(y) = Raise THEN <<Raise, Raise>>
    ELSE <<timer_x_pos(x, pad, size, video_width), timer_y_pos(y)>>

\* create_timer_clip: the shape whose settings and mask are used
timer_shape(shape) ==
    LET shape_type == get(shape, Circle)
    IN  IF shape_type = Circle THEN Circle ELSE Square

(***************************************************************************)
(* main(), one action per block.                                           *)
(***************************************************************************)
\* intro_clip = create_bookend_clip(...) if settings.get('project_intro')
CreateIntro ==
    /\ pc = "intro"
    /\ intro_clip' = IF settings.project_intro THEN create_bookend_clip("intro") ELSE None
    /\ pc' = "end"
    /\ UNCHANGED <<settings, docs, fs, questions, end_clip, clips, qi, final_video,
                   rendered, error, questions_data, geo>>

\* end_clip = create_bookend_clip(...) if settings.get('project_end')
CreateEnd ==
    /\ pc = "end"
    /\ end_clip' = IF settings.project_end THEN create_bookend_clip("end") ELSE None
    /\ pc' = "preview"
    /\ UNCHANGED <<settings, docs, fs, questions, intro_clip, clips, qi, final_video,
                   rendered, error, questions_data, geo>>

\* The preview block: questions = questions[:limit] or the duration prefix.
Preview ==
    /\ pc = "preview"
    /\ questions' = preview(questions)
    /\ pc' = "add_intro"
    /\ UNCHANGED <<settings, docs, fs, intro_clip, end_clip, clips, qi, final_video,
                   rendered, error, questions_data, geo>>

\* clips = []; if intro_clip: clips.append(intro_clip)
AddIntro ==
    /\ pc = "add_intro"
    /\ clips' = IF intro_clip # None THEN <<intro_clip>> ELSE <<>>
    /\ qi' = 1
    /\ pc' = "questions"
    /\ UNCHANGED <<settings, docs, fs, questions, intro_clip, end_clip, final_video,
                   rendered, error, questions_data, geo>>

\* An iteration that skips a question whose clip cannot be built.
BuildQuestionSkipping ==
    /\ pc = "questions"
    /\ qi <= Len(questions)
    /\ LET qa == questions[qi]
           r == create_qa_video(qa.id)
       IN  IF ~qa.has_question \/ ~qa.has_answer \/ r.raised
           THEN clips' = clips
           ELSE clips' = Append(clips, r.clip)
    /\ qi' = qi + 1
    /\ UNCHANGED <<pc, error, settings, docs, fs, questions, intro_clip, end_clip,
                   final_video, rendered, questions_data, geo>>

\* One iteration of `for i, qa in enumerate(questions)`.
BuildQuestion ==
    /\ pc = "questions"
    /\ qi <= Len(questions)
    /\ LET qa == questions[qi]
           r == create_qa_video(qa.id)
       IN  IF ~qa.has_question \/ ~qa.has_answer          \* KeyError in main
           THEN /\ pc' = "raised"
                /\ error' = "KeyError"
                /\ UNCHANGED <<clips, qi>>
           ELSE IF r.raised                                \* re-raised by create_qa_video
           THEN /\ pc' = "raised"
                /\ error' = "create_qa_video"
                /\ UNCHANGED <<clips, qi>>
           ELSE /\ clips' = Append(clips, r.clip)
                /\ qi' = qi + 1
                /\ UNCHANGED <<pc, error>>
    /\ UNCHANGED <<settings, docs, fs, questions, intro_clip, end_clip, final_video,
                   rendered, questions_data, geo>>

\* An end clip put in front of the list instead of behind it.
AddEndInFront ==
    /\ pc = "questions"
    /\ qi > Len(questions)
    /\ clips' = IF end_clip # None THEN <<end_clip>> \o clips ELSE clips
    /\ pc' = "concat"
    /\ UNCHANGED <<settings, docs, fs, questions, intro_clip, end_clip, qi, final_video,
                   rendered, error, questions_data, geo>>

\* if end_clip: clips.append(end_clip)
AddEnd ==
    /\ pc = "questions"
    /\ qi > Len(questions)
    /\ clips' = IF end_clip # None THEN Append(clips, end_clip) ELSE clips
    /\ pc' = "concat"
    /\ UNCHANGED <<settings, docs, fs, questions, intro_clip, end_clip, qi, final_video,
                   rendered, error, questions_data, geo>>

\* final_video = concatenate_videoclips(clips): raises on an empty list.
Concatenate ==
    /\ pc = "concat"
    /\ IF clips = <<>>
       THEN /\ pc' = "raised"
            /\ error' = "concatenate_videoclips"
            /\ UNCHANGED final_video
       ELSE /\ final_video' = concatenate_videoclips(clips)
            /\ pc' = "audio"
            /\ UNCHANGED error
    /\ UNCHANGED <<settings, docs, fs, questions, intro_clip, end_clip, clips, qi,
                   rendered, questions_data, geo>>

\* The audio block, its try/except included.
AddAudio ==
    /\ pc = "audio"
    /\ final_video' = IF settings.audio_file
                      THEN [final_video EXCEPT !.audio = audio_track(final_video.duration)]
                      ELSE final_video
    /\ pc' = "write"
    /\ UNCHANGED <<settings, docs, fs, questions, intro_clip, end_clip, clips, qi,
                   rendered, error, questions_data, geo>>

\* final_video.write_videofile(...)
WriteVideo ==
    /\ pc = "write"
    /\ rendered' = final_video
    /\ pc' = "done"
    /\ UNCHANGED <<settings, docs, fs, questions, intro_clip, end_clip, clips, qi,
                   final_video, error, questions_data, geo>>

Next ==
    \/ CreateIntro
    \/ CreateEnd
    \/ Preview
    \/ AddIntro
    \/ BuildQuestion
    \/ AddEnd
    \/ Concatenate
    \/ AddAudio
    \/ WriteVideo

(***************************************************************************)
(* Inputs.                                                                 *)
(***************************************************************************)
\* questions_data['questions'] with n well-formed entries
question_list(n) == [i \in 1..n |-> [id |-> i, has_question |-> TRUE, has_answer |-> TRUE]]

NoPreview == [enabled |-> FALSE, type |-> "questions", questions_limit |-> 0,
              duration_limit |-> 0]

PreviewModes ==
    {NoPreview}
    \cup {[enabled |-> TRUE, type |-> "questions", questions_limit |-> l,
           duration_limit |-> 0] : l \in 0..MaxQuestionsLimit}
    \cup {[enabled |-> TRUE, type |-> "duration", questions_limit |-> 0,
           duration_limit |-> l] : l \in 0..MaxDurationLimit}

NoSoundtrack == [file |-> FALSE, loop |-> FALSE, source_duration |-> 1]

Soundtracks ==
    {NoSoundtrack}
    \cup {[file |-> TRUE, loop |-> l, source_duration |-> s] :
            l \in BOOLEAN, s \in 1..MaxSourceDuration}

SettingsOf(q, a, bg, tick, font, pv, bookends, au) ==
    [question_duration |-> q, answer_duration |-> a,
     background_image |-> bg, timer_sound_enabled |-> tick, font_ok |-> font,
     preview_enabled |-> pv.enabled, preview_type |-> pv.type,
     questions_limit |-> pv.questions_limit, duration_limit |-> pv.duration_limit,
     project_intro |-> bookends[1], project_end |-> bookends[2],
     audio_file |-> au.file, audio_loop |-> au.loop,
     audio_source_duration |-> au.source_duration]

\* The keys of a project_<kind>.json document that create_bookend_clip reads.
BookendDoc(exists, enabled, has_dur, dur, bg_image, has_images, n_images, has_texts, n_texts, font_ok) ==
    [exists |-> exists, enabled |-> enabled, has_duration |-> has_dur,
     duration |-> dur, bg_image |-> bg_image, has_images |-> has_images,
     n_images |-> n_images, has_texts |-> has_texts, n_texts |-> n_texts,
     font_ok |-> font_ok]

\* No project_<kind>.json in the project directory.
NoDoc == BookendDoc(FALSE, "missing", FALSE, 0, FALSE, FALSE, 0, FALSE, 0, TRUE)

\* An enabled document with one text and the given duration key.
PlainDoc(has_duration, duration) ==
    BookendDoc(TRUE, "true", has_duration, duration, FALSE, FALSE, 0, TRUE, 1, TRUE)

Durations == {<<FALSE, 0>>} \cup {<<TRUE, d>> : d \in 0..MaxBookendDuration}

\* Documents that differ in existence, the enabled key and the duration.
SwitchDocs ==
    {NoDoc}
    \cup {BookendDoc(TRUE, e, FALSE, 0, FALSE, FALSE, 0, TRUE, 1, TRUE) :
            e \in {"missing", "false"}}
    \cup {PlainDoc(d[1], d[2]) : d \in Durations}

MediaFiles == {"root/bg", "root/bookend_bg", "proj/bookend_bg", "proj/img", "root/img",
               "root/audio", "root/tick"}

GeoIdle == [op |-> "idle"]

InitMain(settingsSet, docsSet, fsSet, counts) ==
    /\ settings \in settingsSet
    /\ docs \in docsSet
    /\ fs \in fsSet
    /\ \E n \in counts : questions_data = question_list(n)
    /\ questions = questions_data
    /\ pc = "intro"
    /\ intro_clip = None
    /\ end_clip = None
    /\ clips = <<>>
    /\ qi = 1
    /\ final_video = NoVideo
    /\ rendered = NoVideo
    /\ error = "none"
    /\ geo = GeoIdle

\* Timing: every question / answer duration and question count, no preview.
InitTiming ==
    InitMain({SettingsOf(q, a, bg, tick, TRUE, NoPreview, <<b, b>>, NoSoundtrack) :
                q \in 0..MaxQuestionDuration, a \in 0..MaxAnswerDuration,
                bg \in BOOLEAN, tick \in BOOLEAN, b \in BOOLEAN},
             {[intro |-> PlainDoc(FALSE, 0), end |-> PlainDoc(FALSE, 0)]},
             {MediaFiles, {}},
             0..MaxQuestions)

SpecTiming == InitTiming /\ [][Next]_vars

BookendConfigs == {<<FALSE, PlainDoc(FALSE, 0)>>} \cup {<<TRUE, d>> : d \in SwitchDocs}

\* Whole runs: every preview mode and every kind of bookend document.
Init ==
    \E i \in BookendConfigs, e \in BookendConfigs :
        InitMain({SettingsOf(q, a, FALSE, FALSE, TRUE, pv, <<i[1], e[1]>>, NoSoundtrack) :
                    q \in {0, MaxQuestionDuration}, a \in 0..1, pv \in PreviewModes},
                 {[intro |-> i[2], end |-> e[2]]},
                 {MediaFiles},
                 0..MaxQuestions)

Spec == Init /\ [][Next]_vars

ImageLists == {<<FALSE, 0>>} \cup {<<TRUE, n>> : n \in 0..MaxImages}

\* Enabled documents with or without a background image and image layers.
MediaDocs ==
    {BookendDoc(TRUE, "true", FALSE, 0, bg, im[1], im[2], TRUE, 1, TRUE) :
        bg \in BOOLEAN, im \in ImageLists}

\* Media: every referenced file configured, any subset of them on disk.
InitMedia ==
    \E d \in MediaDocs :
        InitMain({SettingsOf(2, 1, TRUE, TRUE, TRUE, NoPreview, <<TRUE, TRUE>>,
                             [file |-> TRUE, loop |-> l, source_duration |-> 2]) :
                    l \in BOOLEAN},
                 {[intro |-> d, end |-> d]},
                 SUBSET MediaFiles,
                 1..2)

SpecMedia == InitMedia /\ [][Next]_vars

\* Soundtrack: every source duration and loop flag over timelines of many lengths.
InitAudio ==
    InitMain({SettingsOf(q, a, FALSE, FALSE, TRUE, NoPreview, <<FALSE, b>>, au) :
                q \in 0..MaxQuestionDuration, a \in 0..1, b \in BOOLEAN,
                au \in Soundtracks},
             {[intro |-> NoDoc, end |-> PlainDoc(FALSE, 0)]},
             {MediaFiles, MediaFiles \ {"root/audio"}},
             0..MaxQuestions)

SpecAudio == InitAudio /\ [][Next]_vars

Entries == {[id |-> 0, has_question |-> hq, has_answer |-> ha] : hq \in BOOLEAN, ha \in BOOLEAN}

\* questions_data['questions'] with n entries, any of them without a key
QuestionLists(n) ==
    {[i \in 1..n |-> [f[i] EXCEPT !.id = i]] : f \in [1..n -> Entries]}

CountPreviews == {pv \in PreviewModes : pv.type = "questions"}

\* Failures: entries without question or answer text, a font the backend rejects.
InitFail ==
    /\ settings \in {SettingsOf(1, 1, FALSE, FALSE, font, pv, <<b, b>>, NoSoundtrack) :
                        font \in BOOLEAN, pv \in CountPreviews, b \in BOOLEAN}
    /\ docs = [intro |-> PlainDoc(FALSE, 0), end |-> PlainDoc(FALSE, 0)]
    /\ fs = MediaFiles
    /\ \E n \in 0..MaxQuestions : questions_data \in QuestionLists(n)
    /\ questions = questions_data
    /\ pc = "intro"
    /\ intro_clip = None
    /\ end_clip = None
    /\ clips = <<>>
    /\ qi = 1
    /\ final_video = NoVideo
    /\ rendered = NoVideo
    /\ error = "none"
    /\ geo = GeoIdle

SpecFail == InitFail /\ [][Next]_vars

(***************************************************************************)
(* The resolvers applied to one position descriptor.                       *)
(***************************************************************************)
MaxCoord == 3
MaxPadding == 1
MaxExtent == 2

Coords == (0 - MaxCoord)..MaxCoord

Unknown == StrV(<<"m", "i", "d">>)

AxisSettings ==
    {Missing, Center, Left, Right, Top, Bottom, Unknown}
    \cup {IntV(n) : n \in Coords}
    \cup {FloatV(2 * n + 1) : n \in -1..0}
    \cup {StrV(IntStr(n)) : n \in Coords}

Paddings == {Missing} \cup {IntV(n) : n \in 0..MaxPadding}

Shapes == {Missing, Circle, Square, StrV(<<"t", "r", "i">>)}

ContentExtents == 1..MaxExtent

VideoWidth == MaxExtent + 2
VideoHeight == MaxExtent + 1

GeoInput(x, y, pad) ==
    [op |-> "input", x |-> x, y |-> y, padding |-> pad, w |-> 0, h |-> 0,
     pos |-> <<Missing, Missing>>, shape |-> Missing, shape_used |-> Missing]

\* create_text_clip's call of get_text_position
ResolveText ==
    /\ geo.op = "input"
    /\ \E w \in ContentExtents, h \in ContentExtents :
         geo' = [geo EXCEPT !.op = "text", !.w = w, !.h = h,
                            !.pos = get_text_position(geo.x, geo.y, geo.padding, w, h,
                                                      VideoWidth, VideoHeight)]
    /\ UNCHANGED mainVars

\* process_media_clip on a layer whose config has a position
ResolveMedia ==
    /\ geo.op = "input"
    /\ \E w \in ContentExtents, h \in ContentExtents :
         geo' = [geo EXCEPT !.op = "media", !.w = w, !.h = h,
                            !.pos = media_position(geo.x, geo.y, geo.padding, w, h,
                                                   VideoWidth, VideoHeight)]
    /\ UNCHANGED mainVars

\* create_timer_clip: shape and position of one tick
ResolveTimer ==
    /\ geo.op = "input"
    /\ \E size \in ContentExtents, shape \in Shapes :
         geo' = [geo EXCEPT !.op = "timer", !.w = size, !.h = size,
                            !.pos = timer_position(geo.x, geo.y, geo.padding, size,
                                                   VideoWidth),
                            !.shape = shape, !.shape_used = timer_shape(shape)]
    /\ UNCHANGED mainVars

NextGeom == ResolveText \/ ResolveMedia \/ ResolveTimer

InitGeom ==
    /\ \E x \in AxisSettings, y \in AxisSettings, pad \in Paddings :
         geo = GeoInput(x, y, pad)
    /\ pc = "idle"
    /\ settings = SettingsOf(1, 1, FALSE, FALSE, TRUE, NoPreview, <<FALSE, FALSE>>,
                             NoSoundtrack)
    /\ docs = [intro |-> NoDoc, end |-> NoDoc]
    /\ fs = {}
    /\ questions_data = <<>>
    /\ questions = <<>>
    /\ intro_clip = None
    /\ end_clip = None
    /\ clips = <<>>
    /\ qi = 1
    /\ final_video = NoVideo
    /\ rendered = NoVideo
    /\ error = "none"

SpecGeom == InitGeom /\ [][NextGeom]_vars

(***************************************************************************)
(* The resize step of process_media_clip.                                  *)
(***************************************************************************)
MaxTargetWidth == 5
MaxImageSide == 4

\* int(new_width * aspect_ratio), aspect_ratio = size[1] / size[0]: the float
\* product truncated, which for sizes this small is the exact quotient's floor.
new_height(new_width, size) == (new_width * size[2]) \div size[1]

\* The size after `if isinstance(clip, ImageClip) and config.get('width')`;
\* a width of 0 stands for a missing (or zero) width key.
media_resize(kind, width, size) ==
    IF kind = "image" /\ width # 0 THEN <<width, new_height(width, size)>> ELSE size

ResizeClip ==
    /\ geo.op = "clip"
    /\ geo' = [geo EXCEPT !.op = "resized",
                          !.size = media_resize(geo.kind, geo.width, geo.size)]
    /\ UNCHANGED mainVars

NextResize == ResizeClip

InitResize ==
    /\ \E kind \in {"image", "text"}, width \in 0..MaxTargetWidth,
          w0 \in 1..MaxImageSide, h0 \in 1..MaxImageSide :
         geo = [op |-> "clip", kind |-> kind, width |-> width,
                original |-> <<w0, h0>>, size |-> <<w0, h0>>]
    /\ pc = "idle"
    /\ settings = SettingsOf(1, 1, FALSE, FALSE, TRUE, NoPreview, <<FALSE, FALSE>>,
                             NoSoundtrack)
    /\ docs = [intro |-> NoDoc, end |-> NoDoc]
    /\ fs = {}
    /\ questions_data = <<>>
    /\ questions = <<>>
    /\ intro_clip = None
    /\ end_clip = None
    /\ clips = <<>>
    /\ qi = 1
    /\ final_video = NoVideo
    /\ rendered = NoVideo
    /\ error = "none"

SpecResize == InitResize /\ [][NextResize]_vars

(***************************************************************************)
(* Properties.                                                             *)
(***************************************************************************)
LayersOf(clip, kind) == SelectSeq(clip.layers, LAMBDA l : l.kind = kind)

QaClips == {clips[k] : k \in {j \in 1..Len(clips) : clips[j].kind = "qa"}}

\* The layer occupies exactly [from, to).
Occupies(layer, from, to) == layer.start = from /\ layer.start + layer.duration = to

\* C1: for question_duration q >= 1 every question clip carries exactly q timer
\* layers; the i-th (from 0) shows the numeral q - i, which is at least 1, lasts
\* one second and starts at offset i, so the layers tile [0, q) in order.
C1_TimerCountdown ==
    \A c \in QaClips :
        LET q == settings.question_duration
            t == LayersOf(c, "timer")
        IN  q >= 1 =>
              /\ Len(t) = q
              /\ \A i \in 0..(q - 1) :
                    /\ IsDigit(t[i + 1].content)
                    /\ DigitsValue(t[i + 1].content) = q - i
                    /\ DigitsValue(t[i + 1].content) >= 1
                    /\ t[i + 1].duration = 1
                    /\ Occupies(t[i + 1], i, i + 1)

C1_Witness ==
    /\ pc = "done"
    /\ settings.question_duration >= 3
    /\ \E k \in 1..Len(rendered.clips) :
          /\ rendered.clips[k].kind = "qa"
          /\ Len(LayersOf(rendered.clips[k], "timer")) >= 3

\* The preview block has run.
Previewed == pc \notin {"intro", "end", "preview"}

DurationPreview == settings.preview_enabled /\ settings.preview_type = "duration"

IsPrefix(p, q) == Len(p) <= Len(q) /\ p = SubSeq(q, 1, Len(p))

\* C2: a question clip lasts q + a; its question text occupies [0, q), its answer
\* text [q, q + a); every second of [0, q) is covered by exactly one timer layer
\* and no timer layer reaches into [q, q + a).
C2_QaPhases ==
    \A c \in QaClips :
        LET q == settings.question_duration
            a == settings.answer_duration
            t == LayersOf(c, "timer")
        IN  /\ c.duration = q + a
            /\ Len(LayersOf(c, "question")) = 1
            /\ Occupies(LayersOf(c, "question")[1], 0, q)
            /\ Len(LayersOf(c, "answer")) = 1
            /\ Occupies(LayersOf(c, "answer")[1], q, q + a)
            /\ \A sec \in 0..(q - 1) :
                  Cardinality({k \in 1..Len(t) :
                      t[k].start <= sec /\ sec < t[k].start + t[k].duration}) = 1
            /\ \A k \in 1..Len(t) :
                  t[k].start >= 0 /\ t[k].start + t[k].duration <= q

C2_Witness ==
    /\ pc = "done"
    /\ settings.question_duration >= 2
    /\ settings.answer_duration >= 2
    /\ \E k \in 1..Len(rendered.clips) :
          /\ rendered.clips[k].kind = "qa"
          /\ rendered.clips[k].duration >= 4

\* The soundtrack was loaded: configured, on disk, and the audio block has run.
AudioAttached ==
    /\ pc \in {"write", "done"}
    /\ settings.audio_file
    /\ "root/audio" \in fs

\* C3: with the loop flag set, a source of duration s > 0 and a timeline of
\* duration T > 0, the track is built from exactly ceil(T / s) copies (the least n
\* with n * s >= T) and lasts exactly T; s = 7, T = 20 gives 3 copies cut to 20.
C3_LoopTrim ==
    /\ (AudioAttached /\ settings.audio_loop /\ final_video.duration > 0) =>
          LET T == final_video.duration
              src == settings.audio_source_duration
              track == final_video.audio
          IN  /\ track.present
              /\ track.copies * src >= T
              /\ (track.copies - 1) * src < T
              /\ track.duration = T
    /\ num_loops(20, 7) = 3
    /\ subclip(concatenate_audioclips(7, num_loops(20, 7)), 0, 20) = 20

C3_Witness ==
    /\ AudioAttached
    /\ settings.audio_loop
    /\ final_video.audio.copies >= 3
    /\ final_video.audio.copies * settings.audio_source_duration > final_video.duration

\* C4: with the loop flag clear the attached track lasts min(source, timeline).
C4_NoLoopMin ==
    (AudioAttached /\ ~settings.audio_loop) =>
        /\ final_video.audio.present
        /\ final_video.audio.duration =
              Min(settings.audio_source_duration, final_video.duration)

\* C5: in preview 'duration' mode the kept list is a prefix of the loaded list, in
\* order, and its length k is the largest with intro + k * (q + a) <= limit - end
\* (intro and end being 0 for an absent bookend): the first rejected question ends
\* the loop. With limit 30, end 5, 10 per question and no intro, k = 2.
C5_DurationPrefix ==
    /\ (Previewed /\ DurationPreview) =>
          LET k == Len(questions)
              per == settings.question_duration + settings.answer_duration
              budget == settings.duration_limit - end_clip_duration
          IN  /\ IsPrefix(questions, questions_data)
              /\ k > 0 => intro_duration + k * per <= budget
              /\ k < Len(questions_data) => intro_duration + (k + 1) * per > budget
    /\ Len(preview_questions(question_list(4), 0, 30 - 5, 10)) = 2

C5_Witness ==
    /\ pc = "done"
    /\ DurationPreview
    /\ intro_clip # None
    /\ end_clip # None /\ end_clip.duration > 0
    /\ Len(questions) \in 1..(Len(questions_data) - 1)

ClipKinds(cs) == {cs[k].kind : k \in 1..Len(cs)}

BookendAbsent(kind) == ~docs[kind].exists \/ docs[kind].enabled # "true"

\* C9: for intro and end alike, a missing document or one not enabled (enabled
\* false or no enabled key) gives None without an error, and the timeline carries
\* no such clip; a clip is built only from an existing, enabled document. The run
\* can then fail only for having no clip at all to concatenate.
C9_BookendAbsent ==
    /\ (pc # "intro" /\ BookendAbsent("intro")) => intro_clip = None
    /\ (pc \notin {"intro", "end"} /\ BookendAbsent("end")) => end_clip = None
    /\ intro_clip # None => (docs.intro.exists /\ docs.intro.enabled = "true")
    /\ end_clip # None => (docs.end.exists /\ docs.end.enabled = "true")
    /\ pc \in {"end", "preview"} => error = "none"
    /\ BookendAbsent("intro") =>
          "intro" \notin (ClipKinds(clips) \cup ClipKinds(rendered.clips))
    /\ BookendAbsent("end") =>
          "end" \notin (ClipKinds(clips) \cup ClipKinds(rendered.clips))
    /\ pc = "raised" => (error = "concatenate_videoclips" /\ clips = <<>>)

C9_Witness ==
    /\ pc = "done"
    /\ settings.project_intro /\ settings.project_end
    /\ docs.intro.exists /\ docs.intro.enabled = "missing"
    /\ ~docs.end.exists
    /\ Len(rendered.clips) >= 2

Background(clip) == LayersOf(clip, "background")[1].content

BookendBuilt(clip) ==
    /\ clip # None
    /\ Len(LayersOf(clip, "background")) = 1
    /\ Len(LayersOf(clip, "text")) = 1

\* C10: with every media file configured and any of them missing from disk, the
\* run never raises and goes on until the timeline is handed to the renderer;
\* a question clip without its background image has the color background, a
\* bookend without its background image has the color background, a bookend
\* without its image file is built without image layers, a missing soundtrack
\* leaves the timeline without audio and a missing tick sound leaves every
\* timer layer silent.
C10_MissingMedia ==
    /\ pc # "raised" /\ error = "none"
    /\ pc # "done" => ENABLED Next
    /\ pc = "done" => Len(rendered.clips) = Len(questions_data) + 2
    /\ \A c \in QaClips :
          /\ "root/bg" \notin fs => Background(c) = <<"color">>
          /\ "root/tick" \notin fs =>
                \A k \in 1..Len(c.layers) : ~c.layers[k].sound
    /\ \A b \in {intro_clip, end_clip} :
          (pc \notin {"intro", "end"}) =>
             /\ BookendBuilt(b)
             /\ ("root/bookend_bg" \notin fs /\ "proj/bookend_bg" \notin fs) =>
                   Background(b) = <<"color">>
             /\ ("root/img" \notin fs /\ "proj/img" \notin fs) =>
                   LayersOf(b, "image") = <<>>
    /\ (pc \in {"write", "done"} /\ "root/audio" \notin fs) =>
          final_video.audio = NoAudio
    /\ (pc = "done" /\ "root/audio" \notin fs) => rendered.audio = NoAudio

C10_Witness ==
    /\ pc = "done"
    /\ fs = {}
    /\ docs.intro.bg_image /\ docs.intro.has_images /\ docs.intro.n_images >= 1
    /\ Len(rendered.clips) = 4

PaddingOf(pad) == IF pad = Missing THEN DefaultPadding ELSE pad.v

\* C6: get_text_position resolves 'left' (x) and 'top' (y) to the padding and
\* 'right' (x) and 'bottom' (y) to container - content - padding, each axis on
\* its own; 'right' with content 100, container 1000, padding 20 is 880 and
\* 'left' with padding 20 is 20.
C6_EdgeAnchors ==
    /\ geo.op = "text" =>
          /\ geo.x = Left => geo.pos[1] = IntV(PaddingOf(geo.padding))
          /\ geo.x = Right =>
                geo.pos[1] = IntV(VideoWidth - geo.w - PaddingOf(geo.padding))
          /\ geo.y = Top => geo.pos[2] = IntV(PaddingOf(geo.padding))
          /\ geo.y = Bottom =>
                geo.pos[2] = IntV(VideoHeight - geo.h - PaddingOf(geo.padding))
    /\ get_text_position(Right, Top, IntV(20), 100, 50, 1000, 500)
          = <<IntV(880), IntV(20)>>
    /\ get_text_position(Left, Bottom, IntV(20), 100, 50, 1000, 500)
          = <<IntV(20), IntV(430)>>

C6_Witness ==
    /\ geo.op = "text"
    /\ geo.x = Right
    /\ geo.y = Top
    /\ geo.padding = IntV(1)
    /\ geo.w = 2

\* A setting that is a number or a string int() can read.
IsNumeric(x) == is_number(x) \/ (x.t = "str" /\ python_int(x) # Raise)

\* Twice the numeric value of a number or numeric string.
TwiceOf(x) == IF x.t = "float" THEN x.v ELSE 2 * python_int(x).v

SameNumber(coordinate, x) == is_number(coordinate) /\ TwiceOf(coordinate) = TwiceOf(x)

\* C7: a position setting that is a number or a numeric string, negative or past
\* the canvas included, comes back from get_text_position and from
\* process_media_clip as that same number, whatever the extents and padding.
C7_NumericVerbatim ==
    geo.op \in {"text", "media"} =>
        /\ IsNumeric(geo.x) => SameNumber(geo.pos[1], geo.x)
        /\ IsNumeric(geo.y) => SameNumber(geo.pos[2], geo.y)

XNames == {Center, Left, Right}
YNames == {Center, Top, Bottom}

\* C8: an unrecognized timer shape is taken as 'circle', and an unrecognized or
\* missing axis value is taken as 'center' without raising, in get_text_position,
\* in process_media_clip and in create_timer_clip.
C8_EnumDefaults ==
    /\ geo.op = "timer" =>
          (geo.shape \notin {Circle, Square} => geo.shape_used = Circle)
    /\ geo.op \in {"text", "media", "timer"} =>
          /\ geo.pos # <<Raise, Raise>>
          /\ (~IsNumeric(geo.x) /\ geo.x \notin XNames) => geo.pos[1] = Center
          /\ (~IsNumeric(geo.y) /\ geo.y \notin YNames) => geo.pos[2] = Center

\* The clip of entry k of the kept questions cannot be built.
Fails(k) ==
    ~questions[k].has_question \/ ~questions[k].has_answer \/ ~settings.font_ok

FailingIndexes == {k \in 1..Len(questions) : Fails(k)}

FirstFailing == CHOOSE k \in FailingIndexes : \A j \in FailingIndexes : k <= j

NumQaClips == Cardinality({k \in 1..Len(clips) : clips[k].kind = "qa"})

\* C11: when the clip of a kept question cannot be built (no question text, no
\* answer text, or a text layer the backend rejects), main stops there with the
\* exception: exactly the clips of the questions before it were built, none
\* after it, the question is not skipped, and nothing reaches the renderer.
C11_FailurePropagates ==
    /\ rendered = NoVideo \/ pc = "done"
    /\ (Previewed /\ FailingIndexes # {}) =>
          /\ pc \in {"add_intro", "questions", "raised"}
          /\ final_video = NoVideo /\ rendered = NoVideo
          /\ NumQaClips <= FirstFailing - 1
          /\ pc = "questions" => qi <= FirstFailing
          /\ pc = "raised" =>
                /\ error \in {"KeyError", "create_qa_video"}
                /\ qi = FirstFailing
                /\ NumQaClips = FirstFailing - 1
                /\ ~ENABLED Next
    /\ pc \in {"concat", "audio", "write", "done"} => FailingIndexes = {}

C11_Witness ==
    /\ pc = "raised"
    /\ error = "KeyError"
    /\ qi = 2
    /\ Len(questions) = 3
    /\ NumQaClips = 1
    /\ intro_clip # None

Count(clip) == IF clip # None THEN 1 ELSE 0

\* The timeline is intro (if built), the clips of qs in order, end (if built).
InOrder(cs, qs) ==
    /\ Len(cs) = Count(intro_clip) + Len(qs) + Count(end_clip)
    /\ intro_clip # None => (cs[1] = intro_clip /\ cs[1].kind = "intro")
    /\ \A k \in 1..Len(qs) :
          /\ cs[Count(intro_clip) + k].kind = "qa"
          /\ cs[Count(intro_clip) + k].ref = qs[k].id
    /\ end_clip # None => (cs[Len(cs)] = end_clip /\ cs[Len(cs)].kind = "end")

\* C12: the timeline handed to the renderer is the intro clip if one was built,
\* then one clip per kept question in the order of the questions document, then
\* the end clip if one was built; the kept questions are loaded questions in
\* their loaded order, none twice.
C12_TimelineOrder ==
    /\ pc \in {"audio", "write", "done"} => InOrder(final_video.clips, questions)
    /\ pc = "done" => (rendered.clips = final_video.clips
                        /\ InOrder(rendered.clips, questions))
    /\ \A k \in 1..Len(questions) :
          /\ questions[k] \in {questions_data[j] : j \in 1..Len(questions_data)}
          /\ \A j \in 1..(k - 1) : questions[j].id < questions[k].id

C12_Witness ==
    /\ pc = "done"
    /\ intro_clip # None
    /\ end_clip # None
    /\ settings.preview_enabled
    /\ Len(questions) = 2
    /\ Len(questions_data) = 3
    /\ Len(rendered.clips) = 4

BookendClip(kind) == IF kind = "intro" THEN intro_clip ELSE end_clip

\* C13: a bookend whose document names a background image shows the image when
\* the file exists under the project directory or, failing that, under the
\* application root, and the solid color only when it exists under neither.
C13_BackgroundLookup ==
    \A kind \in {"intro", "end"} :
        (BookendClip(kind) # None /\ docs[kind].bg_image) =>
            /\ ("proj/bookend_bg" \in fs \/ "root/bookend_bg" \in fs) =>
                  Background(BookendClip(kind)) = <<"image">>
            /\ ("proj/bookend_bg" \notin fs /\ "root/bookend_bg" \notin fs) =>
                  Background(BookendClip(kind)) = <<"color">>

Abs(n) == IF n < 0 THEN 0 - n ELSE n

\* C14: an image clip with a configured width W and original size (w0, h0)
\* comes out with size (W, H), H being W * h0 / w0 rounded to the nearest
\* integer: H is within one half of the exact quotient.
C14_RoundedHeight ==
    (geo.op = "resized" /\ geo.kind = "image" /\ geo.width > 0) =>
        /\ geo.size[1] = geo.width
        /\ 2 * Abs(geo.size[2] * geo.original[1] - geo.width * geo.original[2])
              <= geo.original[1]

\* C15: the position create_timer_clip gives a tick is the one get_text_position
\* yields for the timer's position descriptor with the shape size as the content
\* extent, on both axes and for every descriptor.
C15_TimerUsesResolver ==
    geo.op = "timer" =>
        geo.pos = get_text_position(geo.x, geo.y, geo.padding, geo.w, geo.h,
                                    VideoWidth, VideoHeight)

\* C16: in preview 'duration' mode the timeline lasts intro + kept question clips
\* + end; with at least one kept question that total is at most duration_limit,
\* it exceeds duration_limit only when no question is kept and intro + end alone
\* exceed it, and every bookend clip that was built is in the timeline.
C16_PreviewWithinLimit ==
    (pc \in {"audio", "write", "done"} /\ DurationPreview) =>
        LET total == final_video.duration
            cs == final_video.clips
            per == settings.question_duration + settings.answer_duration
        IN  /\ total = intro_duration + Len(questions) * per + end_clip_duration
            /\ total = sum_durations(cs)
            /\ Len(questions) >= 1 => total <= settings.duration_limit
            /\ total > settings.duration_limit =>
                  (Len(questions) = 0
                     /\ intro_duration + end_clip_duration > settings.duration_limit)
            /\ intro_clip # None => Head(cs) = intro_clip
            /\ end_clip # None => cs[Len(cs)] = end_clip

C16_Witness ==
    /\ pc = "done"
    /\ DurationPreview
    /\ intro_clip # None /\ intro_clip.duration > 0
    /\ end_clip # None /\ end_clip.duration > 0
    /\ Len(questions) >= 1
    /\ Len(questions) < Len(questions_data)
    /\ final_video.duration = settings.duration_limit

====
